---- MODULE Spec2Model ----
(***************************************************************************)
(* Model of application/cli.py: the administrator deployment pipeline      *)
(* (admin_deploy), its helpers (check_s3_bucket_exists, create_s3_bucket,  *)
(* upload_templates_to_s3, deploy_cloudformation_stack), the developer     *)
(* commands (launch, status, outputs, list, terminate) and the remote      *)
(* state they act on (one artifact bucket per name, one stack per name,    *)
(* the catalog and one provisioned product per name).                      *)
(* Every remote call of the code is one action; its response is the        *)
(* response the remote state determines, or an injected failure.           *)
(***************************************************************************)
EXTENDS Integers, Sequences, FiniteSets, TLC

\* ------------------------------------------------------------------ bounds
\* Number of CLI processes started one after another in a behaviour of
\* administrator commands, and in a behaviour of developer commands.
MaxRuns == 2
MaxDevRuns == 3

\* ---------------------------------------------------------- program values
DefaultRegion == "us-east-1"
None == "None"

DefaultBucketBase == "agent-devenv-artifacts"
BucketBases == {DefaultBucketBase, "custom"}
AccountId == "111122223333"

\* f"{artifact_bucket_name}-{account_id}" over the names of the model
FullBucketName(base, account) ==
    IF base = DefaultBucketBase
    THEN "agent-devenv-artifacts-111122223333"
    ELSE "custom-111122223333"

BucketNames == {FullBucketName(b, AccountId) : b \in BucketBases}

MasterStackName == "AgentDevEnv-Infrastructure-Master"
StackNames == {MasterStackName, "S"}

StackStatuses ==
    {"ABSENT", "CREATE_IN_PROGRESS", "UPDATE_IN_PROGRESS", "AVAILABLE", "FAILED"}
InProgress == {"CREATE_IN_PROGRESS", "UPDATE_IN_PROGRESS"}
Terminal == {"AVAILABLE", "FAILED"}

\* ------------------------------------------------------------- exceptions
\* The exceptions the remote clients raise, by label: class, error code and
\* the words of the message.
ExcOf(label) ==
    CASE label = "StackNotFound" ->
           [cls |-> "ClientError", code |-> "ValidationError",
            msg |-> <<"Stack with id", "does not exist">>]
      [] label = "NoUpdates" ->
           [cls |-> "ClientError", code |-> "ValidationError",
            msg |-> <<"No updates are to be performed">>]
      [] label = "InvalidState" ->
           [cls |-> "ClientError", code |-> "ValidationError",
            msg |-> <<"Stack", "is in a state that", "can not be updated">>]
      [] label = "AlreadyExists" ->
           [cls |-> "ClientError", code |-> "AlreadyExistsException",
            msg |-> <<"Stack", "already exists">>]
      [] label = "ResourceNotFound" ->
           [cls |-> "ClientError", code |-> "ResourceNotFoundException",
            msg |-> <<"Provisioned product not found">>]
      [] label = "ResourceInUse" ->
           [cls |-> "ClientError", code |-> "ResourceInUseException",
            msg |-> <<"Provisioned product", "is under change">>]
      [] label = "AccessDenied" ->
           [cls |-> "ClientError", code |-> "AccessDenied",
            msg |-> <<"is not authorized to perform">>]
      [] label = "404" ->
           [cls |-> "ClientError", code |-> "404", msg |-> <<"Not Found">>]
      [] label = "403" ->
           [cls |-> "ClientError", code |-> "403", msg |-> <<"Forbidden">>]
      [] label = "NoCredentials" ->
           [cls |-> "NoCredentialsError", code |-> "",
            msg |-> <<"Unable to locate credentials">>]
      [] label = "ConnectionError" ->
           [cls |-> "EndpointConnectionError", code |-> "",
            msg |-> <<"Could not connect to the endpoint URL">>]
      [] label = "WaiterFailed" ->
           [cls |-> "WaiterError", code |-> "",
            msg |-> <<"Waiter encountered a terminal failure state">>]
      [] label = "WaiterTimeout" ->
           [cls |-> "WaiterError", code |-> "",
            msg |-> <<"Max attempts exceeded">>]
      [] label = "UploadFailed" ->
           [cls |-> "S3UploadFailedError", code |-> "",
            msg |-> <<"Failed to upload">>]

\* str(e): a ClientError prints its code and its message
StrE(e) ==
    IF e.cls = "ClientError"
    THEN <<"An error occurred", e.code, "when calling the operation">> \o e.msg
    ELSE e.msg

\* phrase in str(e)
Contains(s, phrase) == \E i \in 1..Len(s) : s[i] = phrase

IsClientError(e) == e.cls = "ClientError"

\* int(e.response['Error']['Code']) of the codes a HEAD probe answers
IntCode(code) == CASE code = "404" -> 404 [] code = "403" -> 403

\* ------------------------------------------------------------ local files
\* The directories upload_templates_to_s3 walks, in its order.
Directories == <<"infrastructure", "initial", "template">>

AdminTemplate == [dir |-> "infrastructure", name |-> "00-admin-deployment.yaml"]
DevEnvTemplate == [dir |-> "template", name |-> "dev-environment-template.yaml"]
OtherTemplate == [dir |-> "initial", name |-> "a.yaml"]

\* The checkouts the program is run from: which directories exist, which
\* *.yaml files they hold, and which of these files carry a {{Token}}
\* placeholder in their text.
AdminOnly ==
    [dirs |-> {"infrastructure"}, files |-> {AdminTemplate}, tokens |-> {}]
FullCheckout ==
    [dirs |-> {"infrastructure", "initial", "template"},
     files |-> {AdminTemplate, OtherTemplate,
                [dir |-> "template", name |-> "a.yaml"], DevEnvTemplate},
     tokens |-> {DevEnvTemplate}]
NoAdminTemplate ==
    [dirs |-> {"infrastructure", "template"}, files |-> {DevEnvTemplate},
     tokens |-> {}]

\* The command-line options and session configuration of a behaviour:
\* --region, the configured session region, --artifact-bucket-name.
NoOptions == [region |-> None, session |-> None, bucket |-> None]
SessionRegion == [region |-> None, session |-> "eu-west-1", bucket |-> "custom"]
RegionOption == [region |-> "us-east-1", session |-> "eu-west-1", bucket |-> None]
OtherRegion == [region |-> "eu-west-1", session |-> None, bucket |-> "custom"]

\* The names developer_launch looks up in the catalog.
PortfolioName == "Development Environment Portfolio"
ProductName == "Development Environment"

\* The catalogs of the account a behaviour runs in: the portfolios
\* list_portfolios returns, the products of each portfolio, and the
\* provisioning artifacts describe_product returns, latest first.
OtherPortfolio == [DisplayName |-> "Other", Id |-> "port-0"]
DevPortfolio == [DisplayName |-> PortfolioName, Id |-> "port-1"]
OtherProduct == [Name |-> "Other", ProductId |-> "prod-0", portfolio |-> "port-1"]
DevProduct == [Name |-> ProductName, ProductId |-> "prod-1", portfolio |-> "port-1"]
FullCatalog ==
    [portfolios |-> <<OtherPortfolio, DevPortfolio>>,
     products |-> <<OtherProduct, DevProduct>>,
     artifacts |-> <<"pa-2", "pa-1">>]
NoPortfolio ==
    [portfolios |-> <<OtherPortfolio>>, products |-> <<>>, artifacts |-> <<>>]
NoProduct ==
    [portfolios |-> <<DevPortfolio>>, products |-> <<OtherProduct>>,
     artifacts |-> <<>>]
NoArtifacts ==
    [portfolios |-> <<DevPortfolio>>, products |-> <<DevProduct>>,
     artifacts |-> <<>>]

\* The installations a behaviour starts from.
Setups ==
    { <<FullCheckout, NoOptions, FullCatalog>>,
      <<AdminOnly, SessionRegion, NoPortfolio>>,
      <<NoAdminTemplate, RegionOption, NoProduct>>,
      <<AdminOnly, OtherRegion, NoArtifacts>> }

\* The commands of the administrator group (with the direct deploy call)
\* and of the developer group. The two groups act on disjoint remote state;
\* a behaviour runs the commands of one group.
AdminCommands == {"admin", "deploy"}
DeveloperCommands == {"launch", "status", "outputs", "list", "terminate"}

\* Provisioned products: their names (the launch's time stamp, here the
\* index of the launching process), statuses and the record types of the
\* operation last requested on them.
ProvisionedNames == 1..MaxDevRuns
ProvisionedStatuses == {"UNDER_CHANGE", "AVAILABLE", "ERROR", "TAINTED"}
TerminalStatuses == {"AVAILABLE", "ERROR", "TAINTED"}
NoProvisioned == [Status |-> None, Id |-> None, RecordType |-> None]
ProvisionedId(name) == <<"pp", name>>
EnvTypes == {"standard", "extra"}

\* parameters of a direct deploy_cloudformation_stack call
NoParameters == [some |-> FALSE, val |-> <<>>]
ParameterMaps == {NoParameters, [some |-> TRUE, val |-> << <<"K", "v">> >>]}
TemplatePaths == {AdminTemplate, OtherTemplate}

\* The arguments of the direct deploy calls: any template and parameters on
\* the stack "S"; the base stack only from its own template.
DeployArguments ==
    {a \in [template_path : TemplatePaths, stack_name : StackNames,
            parameters : ParameterMaps] :
        a.stack_name = MasterStackName =>
            (a.template_path = AdminTemplate /\ a.parameters.some)}

VARIABLES
    stackStatus,    \* remote: lifecycle status of each stack name
    stackCfg,       \* remote: template body and parameters last accepted
    buckets,        \* remote: each bucket's existence, versioning, encryption
    fs,             \* local: the checkout (constant in a behaviour)
    settings,       \* local: options and session region (constant)
    proc,           \* the running CLI process: command, position, locals
    calls,          \* the remote calls the running process issued, in order
    runs,           \* number of processes started so far
    entryStatus,    \* status of the stack when deploy was entered, or None
    prev,           \* summary of the previous process
    catalog,        \* remote: portfolios, products, artifacts (constant)
    provisioned     \* remote: the provisioned product of each name

remote == <<stackStatus, stackCfg, buckets>>
config == <<fs, settings>>
history == <<runs, entryStatus, prev>>
service == <<catalog, provisioned>>
vars == <<stackStatus, stackCfg, buckets, fs, settings, proc, calls, runs,
          entryStatus, prev, catalog, provisioned>>

Final == {"done", "returned", "exit1", "crashed", "killed"}
Aborted == {"exit1", "crashed"}

NoFile == [dir |-> None, name |-> None]
NoCfg == [template |-> NoFile, params |-> <<>>]
NoBucket == [exists |-> FALSE, versioning |-> FALSE, encryption |-> FALSE]

IdleProc ==
    [cmd |-> "none", pc |-> "idle",
     region |-> None, artifact_bucket_name |-> None, full_bucket_name |-> None,
     dirIdx |-> 0, left |-> {},
     template_path |-> NoFile, stack_name |-> None, parameters |-> NoParameters,
     template_body |-> NoFile, stack_exists |-> FALSE,
     name |-> None, force |-> FALSE, env_type |-> None,
     portfolio_id |-> None, product_id |-> None, artifact_id |-> None,
     status |-> None, confirm |-> None, report |-> None]

Call(op, req, res) == [op |-> op, req |-> req, res |-> res]

\* ---------------------------------------------------------------- helpers
\* get_aws_region: the session's region, or the default when none is set
get_aws_region(session) == IF session = None THEN DefaultRegion ELSE session

\* the flattening of the parameter mapping into ParameterKey/ParameterValue
CfParameters(parameters) ==
    IF parameters.some /\ Len(parameters.val) > 0
    THEN [i \in 1..Len(parameters.val) |->
            [ParameterKey |-> parameters.val[i][1],
             ParameterValue |-> parameters.val[i][2]]]
    ELSE <<>>

\* directory.glob("*.yaml") of the i-th directory, empty if it does not exist
Glob(f, i) ==
    IF Directories[i] \in f.dirs
    THEN {x \in f.files : x.dir = Directories[i]}
    ELSE {}

\* the first directory from i on that still has a file to upload
RECURSIVE NextDir(_, _)
NextDir(f, i) ==
    IF i > Len(Directories) THEN i
    ELSE IF Glob(f, i) # {} THEN i
    ELSE NextDir(f, i + 1)

\* position of the upload loop when it is entered at directory i
EnterLoop(p, f, i) ==
    LET j == NextDir(f, i) IN
    IF j > Len(Directories)
    THEN [p EXCEPT !.pc = "upload_dev", !.dirIdx = j, !.left = {}]
    ELSE [p EXCEPT !.pc = "upload", !.dirIdx = j, !.left = Glob(f, j)]

\* where an exception leaves the process when the handler is
\* "except ClientError: sys.exit(1)": anything else is an uncaught traceback
ExitOnClientError(e) == IF IsClientError(e) THEN "exit1" ELSE "crashed"

\* the return of deploy_cloudformation_stack to its caller
AfterDeploy(p) == IF p.cmd = "admin" THEN "done" ELSE "returned"

\* the result of the i-th call of a log, or None if there is no such call
ResultAt(log, i) == IF i \in 1..Len(log) THEN log[i].res ELSE None

\* the position in a log of the first call of one of the operations, or 0
RECURSIVE FirstCall(_, _, _)
FirstCall(log, ops, i) ==
    IF i > Len(log) THEN 0
    ELSE IF log[i].op \in ops THEN i
    ELSE FirstCall(log, ops, i + 1)

StackMutations == {"create_stack", "update_stack"}

\* the previous process as later runs are compared with it
Summary(p, log, entry) ==
    LET m == FirstCall(log, StackMutations, 1) IN
    [cmd |-> p.cmd, pc |-> p.pc,
     full_bucket_name |-> p.full_bucket_name,
     stack_name |-> p.stack_name,
     template_path |-> p.template_path,
     parameters |-> p.parameters,
     head |-> ResultAt(log, FirstCall(log, {"head_bucket"}, 1)),
     bucket_created |-> ResultAt(log, FirstCall(log, {"create_bucket"}, 1)),
     versioned |-> ResultAt(log, FirstCall(log, {"put_bucket_versioning"}, 1)),
     encrypted |-> ResultAt(log, FirstCall(log, {"put_bucket_encryption"}, 1)),
     mutation |-> IF m = 0 THEN None ELSE log[m].op,
     mutated |-> ResultAt(log, m),
     waited |-> ResultAt(log, FirstCall(log, {"wait"}, 1)),
     entryStatus |-> entry]

Init ==
    /\ stackStatus = [n \in StackNames |-> "ABSENT"]
    /\ stackCfg = [n \in StackNames |-> NoCfg]
    /\ buckets = [b \in BucketNames |-> NoBucket]
    /\ \E setup \in Setups :
         fs = setup[1] /\ settings = setup[2] /\ catalog = setup[3]
    /\ provisioned = [n \in ProvisionedNames |-> NoProvisioned]
    /\ proc = IdleProc
    /\ calls = <<>>
    /\ runs = 0
    /\ entryStatus = None
    /\ prev = Summary(IdleProc, <<>>, None)

\* ------------------------------------------------------------ admin deploy
\* A new process: `admin deploy [--region R] [--artifact-bucket-name B]`
StartAdmin ==
    /\ proc.pc \in Final \cup {"idle"}
    /\ proc.cmd \notin DeveloperCommands
    /\ runs < MaxRuns
    /\ proc' = [IdleProc EXCEPT !.cmd = "admin", !.pc = "auth",
                                !.region = settings.region,
                                !.artifact_bucket_name = settings.bucket]
    /\ calls' = <<>>
    /\ runs' = runs + 1
    /\ entryStatus' = None
    /\ prev' = Summary(proc, calls, entryStatus)
    /\ UNCHANGED <<remote, config, service>>

\* where each command goes on once it is authenticated; the developer
\* commands with an optional --region resolve it here
Authenticated(p, st) ==
    CASE p.cmd = "admin" -> [p EXCEPT !.pc = "identity"]
      [] p.cmd = "launch" -> [p EXCEPT !.pc = "list_portfolios"]
      [] p.cmd = "status" ->
           [p EXCEPT !.pc = "status_describe",
                     !.region = IF p.region = None
                                THEN get_aws_region(st.session) ELSE p.region]
      [] p.cmd = "outputs" ->
           [p EXCEPT !.pc = "outputs_describe",
                     !.region = IF p.region = None
                                THEN get_aws_region(st.session) ELSE p.region]
      [] p.cmd = "list" ->
           [p EXCEPT !.pc = "search_provisioned",
                     !.region = IF p.region = None
                                THEN get_aws_region(st.session) ELSE p.region]
      [] p.cmd = "terminate" ->
           [p EXCEPT !.pc = "terminate_describe",
                     !.region = IF p.region = None
                                THEN get_aws_region(st.session) ELSE p.region]

\* AfterCredentials without the sys.exit(1) of the commands
AfterCredentials_Proceed(p, st, res) ==
    IF res = "ok" THEN Authenticated(p, st)
    ELSE IF ExcOf(res).cls \in {"ClientError", "NoCredentialsError"}
         THEN Authenticated(p, st)
         ELSE [p EXCEPT !.pc = "crashed"]

\* `if not check_aws_credentials(): ... sys.exit(1)`, the first statement
\* of every command: check_aws_credentials is False on ClientError or
\* NoCredentialsError, and lets any other exception through
AfterCredentials(p, st, res) ==
    IF res = "ok" THEN Authenticated(p, st)
    ELSE IF ExcOf(res).cls \in {"ClientError", "NoCredentialsError"}
         THEN [p EXCEPT !.pc = "exit1"]
         ELSE [p EXCEPT !.pc = "crashed"]

CheckCredentials ==
    /\ proc.pc = "auth"
    /\ \E res \in {"ok", "AccessDenied", "NoCredentials", "ConnectionError"} :
         /\ calls' = Append(calls, Call("get_caller_identity", [x \in {} |-> x], res))
         /\ proc' = AfterCredentials(proc, settings, res)
    /\ UNCHANGED <<remote, config, service, history>>

\* region and bucket name resolution, with the second identity call
ResolveIdentity ==
    /\ proc.pc = "identity"
    /\ \E res \in {"ok", "ConnectionError"} :
         /\ calls' = Append(calls, Call("get_caller_identity", [x \in {} |-> x], res))
         /\ proc' =
              IF res = "ok"
              THEN [proc EXCEPT
                     !.pc = "head",
                     !.region = IF proc.region = None
                                THEN get_aws_region(settings.session)
                                ELSE proc.region,
                     !.full_bucket_name = FullBucketName(
                         IF proc.artifact_bucket_name = None
                         THEN DefaultBucketBase ELSE proc.artifact_bucket_name,
                         AccountId)]
              ELSE [proc EXCEPT !.pc = "crashed"]
    /\ UNCHANGED <<remote, config, service, history>>

\* ---------------------------------------------------------- artifact store
\* AfterHead without the branch on bucket_exists: the bucket is always created
AfterHead_AlwaysCreate(p, f, res) ==
    IF res = "ok" THEN [p EXCEPT !.pc = "create_bucket"]
    ELSE IF ~IsClientError(ExcOf(res)) THEN [p EXCEPT !.pc = "crashed"]
    ELSE IF IntCode(ExcOf(res).code) = 404
         THEN [p EXCEPT !.pc = "create_bucket"]
         ELSE [p EXCEPT !.pc = "exit1"]

\* AfterHead without the sys.exit(1): a failed probe counts as a found bucket
AfterHead_NoExit(p, f, res) ==
    IF res = "ok" THEN EnterLoop(p, f, 1)
    ELSE IF ~IsClientError(ExcOf(res)) THEN [p EXCEPT !.pc = "crashed"]
    ELSE IF IntCode(ExcOf(res).code) = 404
         THEN [p EXCEPT !.pc = "create_bucket"]
         ELSE EnterLoop(p, f, 1)

\* AfterHead without the test of the error code: every ClientError of the
\* probe means the bucket is absent
AfterHead_AnyCodeAbsent(p, f, res) ==
    IF res = "ok" THEN EnterLoop(p, f, 1)
    ELSE IF ~IsClientError(ExcOf(res)) THEN [p EXCEPT !.pc = "crashed"]
    ELSE [p EXCEPT !.pc = "create_bucket"]

\* check_s3_bucket_exists and the branch of admin_deploy on its result: True
\* goes on to the upload, a 404 is False and goes on to create_s3_bucket,
\* another code is sys.exit(1)
AfterHead(p, f, res) ==
    IF res = "ok" THEN EnterLoop(p, f, 1)
    ELSE IF ~IsClientError(ExcOf(res)) THEN [p EXCEPT !.pc = "crashed"]
    ELSE IF IntCode(ExcOf(res).code) = 404
         THEN [p EXCEPT !.pc = "create_bucket"]
         ELSE [p EXCEPT !.pc = "exit1"]

\* s3_client.head_bucket(Bucket=bucket_name)
HeadBucket ==
    /\ proc.pc = "head"
    /\ LET b == proc.full_bucket_name IN
       \E res \in {IF buckets[b].exists THEN "ok" ELSE "404", "403", "ConnectionError"} :
         /\ calls' = Append(calls, Call("head_bucket", [Bucket |-> b], res))
         /\ proc' = AfterHead(proc, fs, res)
    /\ UNCHANGED <<remote, config, service, history>>

\* CreateBucketRequest without the us-east-1 branch
CreateBucketRequest_AlwaysConstraint(bucket_name, region) ==
    [Bucket |-> bucket_name, LocationConstraint |-> region]

\* the request of create_s3_bucket: no CreateBucketConfiguration in us-east-1
CreateBucketRequest(bucket_name, region) ==
    IF region = "us-east-1"
    THEN [Bucket |-> bucket_name]
    ELSE [Bucket |-> bucket_name, LocationConstraint |-> region]

\* create_s3_bucket, first call: create_bucket
CreateBucket ==
    /\ proc.pc = "create_bucket"
    /\ LET b == proc.full_bucket_name IN
       \E res \in {"ok", "AccessDenied", "ConnectionError"} :
         /\ calls' = Append(calls,
                Call("create_bucket", CreateBucketRequest(b, proc.region), res))
         /\ buckets' = IF res = "ok"
                       THEN [buckets EXCEPT ![b].exists = TRUE] ELSE buckets
         /\ proc' = [proc EXCEPT !.pc =
                IF res = "ok" THEN "versioning" ELSE ExitOnClientError(ExcOf(res))]
    /\ UNCHANGED <<stackStatus, stackCfg, config, service, history>>

\* create_s3_bucket, second call: put_bucket_versioning
PutVersioning ==
    /\ proc.pc = "versioning"
    /\ LET b == proc.full_bucket_name IN
       \E res \in {"ok", "AccessDenied", "ConnectionError"} :
         /\ calls' = Append(calls,
                Call("put_bucket_versioning", [Bucket |-> b, Status |-> "Enabled"], res))
         /\ buckets' = IF res = "ok"
                       THEN [buckets EXCEPT ![b].versioning = TRUE] ELSE buckets
         /\ proc' = [proc EXCEPT !.pc =
                IF res = "ok" THEN "encryption" ELSE ExitOnClientError(ExcOf(res))]
    /\ UNCHANGED <<stackStatus, stackCfg, config, service, history>>

\* create_s3_bucket, third call: put_bucket_encryption; then the upload loop
PutEncryption ==
    /\ proc.pc = "encryption"
    /\ LET b == proc.full_bucket_name IN
       \E res \in {"ok", "AccessDenied", "ConnectionError"} :
         /\ calls' = Append(calls,
                Call("put_bucket_encryption", [Bucket |-> b, SSEAlgorithm |-> "AES256"], res))
         /\ buckets' = IF res = "ok"
                       THEN [buckets EXCEPT ![b].encryption = TRUE] ELSE buckets
         /\ proc' = IF res = "ok" THEN EnterLoop(proc, fs, 1)
                    ELSE [proc EXCEPT !.pc = ExitOnClientError(ExcOf(res))]
    /\ UNCHANGED <<stackStatus, stackCfg, config, service, history>>

\* ------------------------------------------------------------------ upload
\* s3_key = f"infrastructure/{file_path.name}"
InfraKey(file_path) == <<"infrastructure", file_path.name>>
DevEnvKey == <<"templates", "dev-environment-template.yaml">>

\* one iteration of the loop over the *.yaml files of the directories
AfterUpload_Continue(p, f, file_path, res) ==
    IF p.left = {file_path}
    THEN EnterLoop(p, f, p.dirIdx + 1)
    ELSE [p EXCEPT !.left = p.left \ {file_path}]

\* where the loop over the *.yaml files goes after one upload_file call: an
\* exception leaves the function, a success goes on with the next file
AfterUpload(p, f, file_path, res) ==
    IF res # "ok" THEN [p EXCEPT !.pc = ExitOnClientError(ExcOf(res))]
    ELSE IF p.left = {file_path}
         THEN EnterLoop(p, f, p.dirIdx + 1)
         ELSE [p EXCEPT !.left = p.left \ {file_path}]

UploadFile ==
    /\ proc.pc = "upload"
    /\ \E file_path \in proc.left, res \in {"ok", "UploadFailed"} :
         /\ calls' = Append(calls,
                Call("upload_file",
                     [Filename |-> file_path, Bucket |-> proc.full_bucket_name,
                      Key |-> InfraKey(file_path)], res))
         /\ proc' = AfterUpload(proc, fs, file_path, res)
    /\ UNCHANGED <<remote, config, service, history>>

\* the arguments admin_deploy calls deploy_cloudformation_stack with
CallDeploy(p) ==
    [p EXCEPT !.pc = "read_template",
              !.template_path = AdminTemplate,
              !.stack_name = MasterStackName,
              !.parameters = [some |-> TRUE,
                              val |-> << <<"ArtifactBucketName", p.full_bucket_name>> >>]]

\* the dev-environment template exists: it goes to the templates/ prefix
UploadDevTemplate ==
    /\ proc.pc = "upload_dev"
    /\ DevEnvTemplate \in fs.files /\ "template" \in fs.dirs
    /\ \E res \in {"ok", "UploadFailed"} :
         /\ calls' = Append(calls,
                Call("upload_file",
                     [Filename |-> DevEnvTemplate, Bucket |-> proc.full_bucket_name,
                      Key |-> DevEnvKey], res))
         /\ proc' = IF res = "ok" THEN CallDeploy(proc)
                    ELSE [proc EXCEPT !.pc = ExitOnClientError(ExcOf(res))]
    /\ UNCHANGED <<remote, config, service, history>>

\* the dev-environment template is missing: a warning, no call
SkipDevTemplate ==
    /\ proc.pc = "upload_dev"
    /\ ~(DevEnvTemplate \in fs.files /\ "template" \in fs.dirs)
    /\ proc' = CallDeploy(proc)
    /\ UNCHANGED <<remote, config, service, history, calls>>

\* ------------------------------------------------------------------ deploy
\* A new process calling deploy_cloudformation_stack(template_path, stack_name,
\* region, parameters) directly.
StartDeploy ==
    /\ proc.pc \in Final \cup {"idle"}
    /\ proc.cmd \notin DeveloperCommands
    /\ runs < MaxRuns
    /\ \E a \in DeployArguments :
         proc' = [IdleProc EXCEPT !.cmd = "deploy", !.pc = "read_template",
                                  !.region = get_aws_region(settings.session),
                                  !.template_path = a.template_path,
                                  !.stack_name = a.stack_name,
                                  !.parameters = a.parameters]
    /\ calls' = <<>>
    /\ runs' = runs + 1
    /\ entryStatus' = None
    /\ prev' = Summary(proc, calls, entryStatus)
    /\ UNCHANGED <<remote, config, service>>

\* open(template_path).read(): FileNotFoundError is not handled
ReadTemplate ==
    /\ proc.pc = "read_template"
    /\ proc' = IF proc.template_path \in fs.files /\ proc.template_path.dir \in fs.dirs
               THEN [proc EXCEPT !.pc = "describe",
                                 !.template_body = proc.template_path]
               ELSE [proc EXCEPT !.pc = "crashed"]
    /\ entryStatus' = stackStatus[proc.stack_name]
    /\ UNCHANGED <<remote, config, service, runs, prev, calls>>

\* the answer of the remote to describe_stacks, failures apart
DescribeAnswer(status) == IF status = "ABSENT" THEN "StackNotFound" ELSE "ok"

\* AfterDescribe that takes a described stack for an absent one
AfterDescribe_NeverExists(p, res) ==
    IF res = "ok" THEN [p EXCEPT !.pc = "mutate", !.stack_exists = FALSE]
    ELSE IF ~IsClientError(ExcOf(res)) THEN [p EXCEPT !.pc = "crashed"]
    ELSE IF ~Contains(StrE(ExcOf(res)), "does not exist")
         THEN [p EXCEPT !.pc = "exit1"]
         ELSE [p EXCEPT !.pc = "mutate", !.stack_exists = FALSE]

\* AfterDescribe without the message test: every ClientError means absent
AfterDescribe_AnyError(p, res) ==
    IF res = "ok" THEN [p EXCEPT !.pc = "mutate", !.stack_exists = TRUE]
    ELSE IF ~IsClientError(ExcOf(res)) THEN [p EXCEPT !.pc = "crashed"]
    ELSE [p EXCEPT !.pc = "mutate", !.stack_exists = FALSE]

\* the handler of the describe: absence is told by 'does not exist' in str(e)
AfterDescribe(p, res) ==
    IF res = "ok" THEN [p EXCEPT !.pc = "mutate", !.stack_exists = TRUE]
    ELSE IF ~IsClientError(ExcOf(res)) THEN [p EXCEPT !.pc = "crashed"]
    ELSE IF ~Contains(StrE(ExcOf(res)), "does not exist")
         THEN [p EXCEPT !.pc = "exit1"]
         ELSE [p EXCEPT !.pc = "mutate", !.stack_exists = FALSE]

\* "Check if stack exists"
DescribeStack ==
    /\ proc.pc = "describe"
    /\ \E res \in {DescribeAnswer(stackStatus[proc.stack_name]),
                   "AccessDenied", "ConnectionError"} :
         /\ calls' = Append(calls,
                Call("describe_stacks", [StackName |-> proc.stack_name], res))
         /\ proc' = AfterDescribe(proc, res)
    /\ UNCHANGED <<remote, config, service, history>>

\* the request of create_stack and of update_stack
StackRequest(p) ==
    [template |-> p.template_body, params |-> CfParameters(p.parameters)]

\* MutatingOp with the branches swapped
MutatingOp_Swapped(stack_exists) ==
    IF stack_exists THEN "create_stack" ELSE "update_stack"

\* the mutating call deploy chooses
MutatingOp(stack_exists) == IF stack_exists THEN "update_stack" ELSE "create_stack"

\* the answer of the remote to create_stack, failures apart
CreateAnswer(status) == IF status = "ABSENT" THEN "ok" ELSE "AlreadyExists"

\* the answer of the remote to update_stack, failures apart: only an
\* AVAILABLE stack is updated, and only when the request differs
UpdateAnswer(status, cfg, req) ==
    IF status = "ABSENT" THEN "StackNotFound"
    ELSE IF status # "AVAILABLE" THEN "InvalidState"
    ELSE IF cfg = req THEN "NoUpdates"
    ELSE "ok"

\* AfterDeployError without the 'No updates' case: every ClientError exits
AfterDeployError_NoPhrase(p, res) ==
    IF ~IsClientError(ExcOf(res)) THEN "crashed" ELSE "exit1"

\* AfterDeployError without the sys.exit(1): every ClientError is swallowed
AfterDeployError_Swallow(p, res) ==
    IF ~IsClientError(ExcOf(res)) THEN "crashed" ELSE AfterDeploy(p)

\* the handler of the try block around the mutating call and the wait
AfterDeployError(p, res) ==
    IF ~IsClientError(ExcOf(res)) THEN "crashed"
    ELSE IF Contains(StrE(ExcOf(res)), "No updates are to be performed")
         THEN AfterDeploy(p)
         ELSE "exit1"

\* AfterAccepted without the wait: deploy returns once the call is accepted
AfterAccepted_NoWait(p) == AfterDeploy(p)

\* after the mutating call was accepted deploy waits for the stack
AfterAccepted(p) == "wait"

\* create_stack or update_stack
MutateStack ==
    /\ proc.pc = "mutate"
    /\ LET n == proc.stack_name
           op == MutatingOp(proc.stack_exists)
           req == StackRequest(proc)
           answer == IF op = "create_stack"
                     THEN CreateAnswer(stackStatus[n])
                     ELSE UpdateAnswer(stackStatus[n], stackCfg[n], req)
       IN
       \E res \in {answer, "AccessDenied", "ConnectionError"} :
         /\ calls' = Append(calls, Call(op, [StackName |-> n] @@ req, res))
         /\ stackStatus' =
              IF res # "ok" THEN stackStatus
              ELSE [stackStatus EXCEPT ![n] =
                      IF op = "create_stack" THEN "CREATE_IN_PROGRESS"
                      ELSE "UPDATE_IN_PROGRESS"]
         /\ stackCfg' = IF res = "ok" THEN [stackCfg EXCEPT ![n] = req] ELSE stackCfg
         /\ proc' = [proc EXCEPT !.pc =
                IF res = "ok" THEN AfterAccepted(proc) ELSE AfterDeployError(proc, res)]
    /\ UNCHANGED <<buckets, config, service, history>>

\* the remote finishes the operation in progress on a stack
RemoteProgress ==
    /\ \E n \in StackNames, s \in Terminal :
         /\ stackStatus[n] \in InProgress
         /\ stackStatus' = [stackStatus EXCEPT ![n] = s]
    /\ UNCHANGED <<stackCfg, buckets, config, service, history, proc, calls>>

\* what waiter.wait does on the status it polls: it goes on polling a
\* stack in progress, returns on success and raises WaiterError otherwise
WaitAnswer(status) ==
    IF status = "AVAILABLE" THEN "ok"
    ELSE IF status \in InProgress THEN "WaiterTimeout"
    ELSE "WaiterFailed"

\* waiter.wait(StackName=stack_name) ends
WaitStack ==
    /\ proc.pc = "wait"
    /\ \E res \in {WaitAnswer(stackStatus[proc.stack_name]), "ConnectionError"} :
         /\ calls' = Append(calls,
                Call("wait", [StackName |-> proc.stack_name], res))
         /\ proc' = [proc EXCEPT !.pc =
                IF res = "ok" THEN AfterDeploy(proc) ELSE AfterDeployError(proc, res)]
    /\ UNCHANGED <<remote, config, service, history>>

\* -------------------------------------------------------- developer launch
\* A new process: `developer launch --region R --type T --key K`
StartLaunch ==
    /\ proc.pc \in Final \cup {"idle"}
    /\ proc.cmd \notin AdminCommands
    /\ runs < MaxDevRuns
    /\ \E env_type \in EnvTypes :
         proc' = [IdleProc EXCEPT !.cmd = "launch", !.pc = "auth",
                                  !.region = DefaultRegion,
                                  !.env_type = env_type]
    /\ calls' = <<>>
    /\ runs' = runs + 1
    /\ entryStatus' = None
    /\ prev' = Summary(proc, calls, entryStatus)
    /\ UNCHANGED <<remote, config, service>>

\* the loop over PortfolioDetails: the Id of the first portfolio with the
\* display name, or None
RECURSIVE FindPortfolio(_, _)
FindPortfolio(portfolios, i) ==
    IF i > Len(portfolios) THEN None
    ELSE IF portfolios[i].DisplayName = PortfolioName THEN portfolios[i].Id
    ELSE FindPortfolio(portfolios, i + 1)

\* the loop over products: the Id of the first product with the name, or None
RECURSIVE FindProduct(_, _)
FindProduct(products, i) ==
    IF i > Len(products) THEN None
    ELSE IF products[i].Name = ProductName THEN products[i].ProductId
    ELSE FindProduct(products, i + 1)

\* instance_type_map
InstanceType(env_type) ==
    CASE env_type = "standard" -> "t3.medium"
      [] env_type = "high" -> "t3.large"
      [] env_type = "extra" -> "t3.xlarge"

\* "Get portfolio ID"
AfterListPortfolios(p, res, portfolios) ==
    IF res # "ok" THEN [p EXCEPT !.pc = ExitOnClientError(ExcOf(res))]
    ELSE IF FindPortfolio(portfolios, 1) = None THEN [p EXCEPT !.pc = "exit1"]
    ELSE [p EXCEPT !.pc = "search_products",
                   !.portfolio_id = FindPortfolio(portfolios, 1)]

ListPortfolios ==
    /\ proc.pc = "list_portfolios"
    /\ \E res \in {"ok", "AccessDenied", "ConnectionError"} :
         /\ calls' = Append(calls, Call("list_portfolios", [x \in {} |-> x], res))
         /\ proc' = AfterListPortfolios(proc, res, catalog.portfolios)
    /\ UNCHANGED <<remote, config, service, history>>

\* the products the remote lists for a portfolio
ProductsOf(c, portfolio_id) ==
    SelectSeq(c.products, LAMBDA d : d.portfolio = portfolio_id)

\* "List products in the portfolio" and "Get product ID based on name"
AfterSearchProducts(p, res, products) ==
    IF res # "ok" THEN [p EXCEPT !.pc = ExitOnClientError(ExcOf(res))]
    ELSE IF FindProduct(products, 1) = None THEN [p EXCEPT !.pc = "exit1"]
    ELSE [p EXCEPT !.pc = "describe_product",
                   !.product_id = FindProduct(products, 1)]

SearchProducts ==
    /\ proc.pc = "search_products"
    /\ \E res \in {"ok", "AccessDenied", "ConnectionError"} :
         /\ calls' = Append(calls,
                Call("search_products_as_admin",
                     [PortfolioId |-> proc.portfolio_id], res))
         /\ proc' = AfterSearchProducts(proc, res,
                                        ProductsOf(catalog, proc.portfolio_id))
    /\ UNCHANGED <<remote, config, service, history>>

\* the provisioning artifacts the remote returns for a product
ArtifactsOf(c, product_id) ==
    IF product_id = DevProduct.ProductId THEN c.artifacts ELSE <<>>

\* AfterDescribeProduct that takes the last artifact of the list
AfterDescribeProduct_Last(p, res, provisioning_artifacts, timestamp) ==
    IF res # "ok" THEN [p EXCEPT !.pc = ExitOnClientError(ExcOf(res))]
    ELSE IF provisioning_artifacts = <<>> THEN [p EXCEPT !.pc = "exit1"]
    ELSE [p EXCEPT !.pc = "provision",
                   !.artifact_id =
                       provisioning_artifacts[Len(provisioning_artifacts)],
                   !.name = timestamp]

\* "Get provisioning artifact ID (version)": the first artifact of a
\* non-empty list, and the name of the product to provision
AfterDescribeProduct(p, res, provisioning_artifacts, timestamp) ==
    IF res # "ok" THEN [p EXCEPT !.pc = ExitOnClientError(ExcOf(res))]
    ELSE IF provisioning_artifacts = <<>> THEN [p EXCEPT !.pc = "exit1"]
    ELSE [p EXCEPT !.pc = "provision",
                   !.artifact_id = provisioning_artifacts[1],
                   !.name = timestamp]

DescribeProduct ==
    /\ proc.pc = "describe_product"
    /\ \E res \in {"ok", "AccessDenied", "ConnectionError"} :
         /\ calls' = Append(calls,
                Call("describe_product", [Id |-> proc.product_id], res))
         /\ proc' = AfterDescribeProduct(proc, res,
                        ArtifactsOf(catalog, proc.product_id), runs)
    /\ UNCHANGED <<remote, config, service, history>>

\* the request of provision_product
ProvisionRequest(p) ==
    [ProductId |-> p.product_id,
     ProvisioningArtifactId |-> p.artifact_id,
     ProvisionedProductName |-> p.name,
     InstanceType |-> InstanceType(p.env_type)]

\* after provision_product: the launch is reported initiated and the
\* command ends
AfterProvision(p, res) ==
    IF res # "ok" THEN [p EXCEPT !.pc = ExitOnClientError(ExcOf(res))]
    ELSE [p EXCEPT !.pc = "done"]

\* "Launch the product with parameters"
ProvisionProduct ==
    /\ proc.pc = "provision"
    /\ \E res \in {"ok", "AccessDenied", "ConnectionError"} :
         /\ calls' = Append(calls,
                Call("provision_product", ProvisionRequest(proc), res))
         /\ proc' = AfterProvision(proc, res)
         /\ provisioned' =
              IF res = "ok"
              THEN [provisioned EXCEPT ![proc.name] =
                       [Status |-> "UNDER_CHANGE", Id |-> ProvisionedId(proc.name),
                        RecordType |-> "PROVISION_PRODUCT"]]
              ELSE provisioned
    /\ UNCHANGED <<remote, config, catalog, history>>

\* -------------------------------------------------------- developer status
\* the answer of the remote to describe_provisioned_product, failures apart
DescribeProvisionedAnswer(pp) ==
    IF pp.Status = None THEN "ResourceNotFound" ELSE "ok"

\* A new process: `developer status --name N [--region R]`
StartStatus ==
    /\ proc.pc \in Final \cup {"idle"}
    /\ proc.cmd \notin AdminCommands
    /\ runs < MaxDevRuns
    /\ \E name \in ProvisionedNames :
         proc' = [IdleProc EXCEPT !.cmd = "status", !.pc = "auth",
                                  !.region = settings.region, !.name = name]
    /\ calls' = <<>>
    /\ runs' = runs + 1
    /\ entryStatus' = None
    /\ prev' = Summary(proc, calls, entryStatus)
    /\ UNCHANGED <<remote, config, service>>

\* StatusReport with the two messages exchanged
StatusReport_Swapped(status) ==
    IF status = "ERROR" THEN "succeeded"
    ELSE IF status = "AVAILABLE" THEN "failed"
    ELSE None

\* the outcome developer_status announces after the status text:
\* "Provisioning failed." on ERROR, "Provisioning completed successfully!"
\* on AVAILABLE, nothing otherwise
StatusReport(status) ==
    IF status = "ERROR" THEN "failed"
    ELSE IF status = "AVAILABLE" THEN "succeeded"
    ELSE None

\* AfterStatusDescribe that goes on to terminate a product it read as ERROR
AfterStatusDescribe_CleansUp(p, res, detail) ==
    IF res # "ok" THEN [p EXCEPT !.pc = ExitOnClientError(ExcOf(res))]
    ELSE IF detail.Status = "ERROR"
         THEN [p EXCEPT !.pc = "terminate", !.status = detail.Status,
                        !.product_id = detail.Id,
                        !.report = StatusReport(detail.Status)]
         ELSE [p EXCEPT !.pc = "done", !.status = detail.Status,
                        !.report = StatusReport(detail.Status)]

\* the body of developer_status after the describe, and its handler
AfterStatusDescribe(p, res, detail) ==
    IF res # "ok" THEN [p EXCEPT !.pc = ExitOnClientError(ExcOf(res))]
    ELSE [p EXCEPT !.pc = "done", !.status = detail.Status,
                   !.report = StatusReport(detail.Status)]

StatusDescribe ==
    /\ proc.pc = "status_describe"
    /\ \E res \in {DescribeProvisionedAnswer(provisioned[proc.name]),
                   "AccessDenied", "ConnectionError"} :
         /\ calls' = Append(calls,
                Call("describe_provisioned_product", [Name |-> proc.name], res))
         /\ proc' = AfterStatusDescribe(proc, res, provisioned[proc.name])
    /\ UNCHANGED <<remote, config, service, history>>

\* ------------------------------------------------------- developer outputs
\* A new process: `developer outputs --name N [--region R]`
StartOutputs ==
    /\ proc.pc \in Final \cup {"idle"}
    /\ proc.cmd \notin AdminCommands
    /\ runs < MaxDevRuns
    /\ \E name \in ProvisionedNames :
         proc' = [IdleProc EXCEPT !.cmd = "outputs", !.pc = "auth",
                                  !.region = settings.region, !.name = name]
    /\ calls' = <<>>
    /\ runs' = runs + 1
    /\ entryStatus' = None
    /\ prev' = Summary(proc, calls, entryStatus)
    /\ UNCHANGED <<remote, config, service>>

\* the Outputs of a provisioned product: present once it is AVAILABLE
OutputsOf(pp) == IF pp.Status = "AVAILABLE" THEN <<"InstanceId">> ELSE <<>>

AfterOutputsDescribe(p, res, outputs) ==
    IF res # "ok" THEN [p EXCEPT !.pc = ExitOnClientError(ExcOf(res))]
    ELSE [p EXCEPT !.pc = "done",
                   !.report = IF outputs = <<>> THEN "no outputs" ELSE "outputs"]

OutputsDescribe ==
    /\ proc.pc = "outputs_describe"
    /\ \E res \in {DescribeProvisionedAnswer(provisioned[proc.name]),
                   "AccessDenied", "ConnectionError"} :
         /\ calls' = Append(calls,
                Call("describe_provisioned_product", [Name |-> proc.name], res))
         /\ proc' = AfterOutputsDescribe(proc, res, OutputsOf(provisioned[proc.name]))
    /\ UNCHANGED <<remote, config, service, history>>

\* ---------------------------------------------------------- developer list
\* A new process: `developer list [--region R]`
StartList ==
    /\ proc.pc \in Final \cup {"idle"}
    /\ proc.cmd \notin AdminCommands
    /\ runs < MaxDevRuns
    /\ proc' = [IdleProc EXCEPT !.cmd = "list", !.pc = "auth",
                                !.region = settings.region]
    /\ calls' = <<>>
    /\ runs' = runs + 1
    /\ entryStatus' = None
    /\ prev' = Summary(proc, calls, entryStatus)
    /\ UNCHANGED <<remote, config, service>>

AfterSearchProvisioned(p, res, products) ==
    IF res # "ok" THEN [p EXCEPT !.pc = ExitOnClientError(ExcOf(res))]
    ELSE [p EXCEPT !.pc = "done",
                   !.report = IF products = {} THEN "no products" ELSE "listed"]

SearchProvisioned ==
    /\ proc.pc = "search_provisioned"
    /\ \E res \in {"ok", "AccessDenied", "ConnectionError"} :
         /\ calls' = Append(calls,
                Call("search_provisioned_products", [x \in {} |-> x], res))
         /\ proc' = AfterSearchProvisioned(proc, res,
                        {n \in ProvisionedNames : provisioned[n].Status # None})
    /\ UNCHANGED <<remote, config, service, history>>

\* ----------------------------------------------------- developer terminate
\* A new process: `developer terminate --name N [--region R] [--force]`
StartTerminate ==
    /\ proc.pc \in Final \cup {"idle"}
    /\ proc.cmd \notin AdminCommands
    /\ runs < MaxDevRuns
    /\ \E name \in ProvisionedNames, force \in BOOLEAN :
         proc' = [IdleProc EXCEPT !.cmd = "terminate", !.pc = "auth",
                                  !.region = settings.region,
                                  !.name = name, !.force = force]
    /\ calls' = <<>>
    /\ runs' = runs + 1
    /\ entryStatus' = None
    /\ prev' = Summary(proc, calls, entryStatus)
    /\ UNCHANGED <<remote, config, service>>

\* AfterTerminateDescribe without the confirmation prompt
AfterTerminateDescribe_NoPrompt(p, res, detail) ==
    IF res # "ok" THEN [p EXCEPT !.pc = ExitOnClientError(ExcOf(res))]
    ELSE IF detail.Id = None THEN [p EXCEPT !.pc = "exit1"]
    ELSE [p EXCEPT !.pc = "terminate", !.product_id = detail.Id]

\* "First check if the product exists", then `if not force` the prompt
AfterTerminateDescribe(p, res, detail) ==
    IF res # "ok" THEN [p EXCEPT !.pc = ExitOnClientError(ExcOf(res))]
    ELSE IF detail.Id = None THEN [p EXCEPT !.pc = "exit1"]
    ELSE IF ~p.force THEN [p EXCEPT !.pc = "confirm", !.product_id = detail.Id]
    ELSE [p EXCEPT !.pc = "terminate", !.product_id = detail.Id]

TerminateDescribe ==
    /\ proc.pc = "terminate_describe"
    /\ \E res \in {DescribeProvisionedAnswer(provisioned[proc.name]),
                   "AccessDenied", "ConnectionError"} :
         /\ calls' = Append(calls,
                Call("describe_provisioned_product", [Name |-> proc.name], res))
         /\ proc' = AfterTerminateDescribe(proc, res, provisioned[proc.name])
    /\ UNCHANGED <<remote, config, service, history>>

\* the answer to click.confirm: declined means "Termination cancelled." and
\* a normal return
AfterConfirm(p, confirm) ==
    IF ~confirm
    THEN [p EXCEPT !.pc = "done", !.confirm = "no", !.report = "cancelled"]
    ELSE [p EXCEPT !.pc = "terminate", !.confirm = "yes"]

Confirm ==
    /\ proc.pc = "confirm"
    /\ \E confirm \in BOOLEAN : proc' = AfterConfirm(proc, confirm)
    /\ UNCHANGED <<remote, config, service, history, calls>>

\* the answer of the remote to terminate_provisioned_product, failures apart
TerminateAnswer(pp) ==
    IF pp.Status = None THEN "ResourceNotFound"
    ELSE IF pp.Status = "UNDER_CHANGE" THEN "ResourceInUse"
    ELSE "ok"

\* "Terminate the product"
TerminateProduct ==
    /\ proc.pc = "terminate"
    /\ \E res \in {TerminateAnswer(provisioned[proc.name]),
                   "AccessDenied", "ConnectionError"} :
         /\ calls' = Append(calls,
                Call("terminate_provisioned_product",
                     [ProvisionedProductId |-> proc.product_id], res))
         /\ proc' = IF res = "ok" THEN [proc EXCEPT !.pc = "done"]
                    ELSE [proc EXCEPT !.pc = ExitOnClientError(ExcOf(res))]
         /\ provisioned' =
              IF res = "ok"
              THEN [provisioned EXCEPT ![proc.name] =
                       [@ EXCEPT !.Status = "UNDER_CHANGE",
                                 !.RecordType = "TERMINATE_PROVISIONED_PRODUCT"]]
              ELSE provisioned
    /\ UNCHANGED <<remote, config, catalog, history>>

\* the remote finishes the operation in progress on a provisioned product:
\* a provisioning ends in a terminal status, a termination removes the
\* product or leaves it tainted
ProductProgress ==
    /\ \E n \in ProvisionedNames :
         /\ provisioned[n].Status = "UNDER_CHANGE"
         /\ \/ /\ provisioned[n].RecordType = "PROVISION_PRODUCT"
               /\ \E st \in TerminalStatuses :
                    provisioned' = [provisioned EXCEPT ![n].Status = st]
            \/ /\ provisioned[n].RecordType = "TERMINATE_PROVISIONED_PRODUCT"
               /\ \/ provisioned' = [provisioned EXCEPT ![n] = NoProvisioned]
                  \/ provisioned' = [provisioned EXCEPT ![n].Status = "TAINTED"]
    /\ UNCHANGED <<remote, config, catalog, history, proc, calls>>

\* an external interrupt ends the process wherever it is
Kill ==
    /\ proc.pc \notin Final \cup {"idle"}
    /\ proc' = [proc EXCEPT !.pc = "killed"]
    /\ UNCHANGED <<remote, config, service, history, calls>>

Next ==
    \/ StartAdmin
    \/ CheckCredentials
    \/ ResolveIdentity
    \/ HeadBucket
    \/ CreateBucket
    \/ PutVersioning
    \/ PutEncryption
    \/ UploadFile
    \/ UploadDevTemplate
    \/ SkipDevTemplate
    \/ StartDeploy
    \/ ReadTemplate
    \/ DescribeStack
    \/ MutateStack
    \/ RemoteProgress
    \/ WaitStack
    \/ StartLaunch
    \/ ListPortfolios
    \/ SearchProducts
    \/ DescribeProduct
    \/ ProvisionProduct
    \/ StartStatus
    \/ StatusDescribe
    \/ StartOutputs
    \/ OutputsDescribe
    \/ StartList
    \/ SearchProvisioned
    \/ StartTerminate
    \/ TerminateDescribe
    \/ Confirm
    \/ TerminateProduct
    \/ ProductProgress
    \/ Kill

Spec == Init /\ [][Next]_vars

\* ============================================================== properties
\* Failures that are injected into a call: they are not the answer the state
\* of the remote determines.
InjectedFailures ==
    {"AccessDenied", "ConnectionError", "NoCredentials", "403", "UploadFailed",
     "WaiterTimeout"}

Faulted(log) == \E i \in 1..Len(log) : log[i].res \in InjectedFailures

ReturnedNormally == {"done", "returned"}

LastCall == calls[Len(calls)]

\* the current deploy invocation follows a deploy invocation with the same
\* stack name, template and parameters that started on an ABSENT stack and
\* returned normally
SecondOfTwoDeploys ==
    /\ entryStatus # None
    /\ prev.pc \in ReturnedNormally
    /\ prev.entryStatus = "ABSENT"
    /\ prev.stack_name = proc.stack_name
    /\ prev.template_path = proc.template_path
    /\ prev.parameters = proc.parameters

\* C1: deploy is idempotent. A deploy that starts on an ABSENT stack and
\* returns has issued a create and left the stack AVAILABLE; the next deploy
\* with the same name, template and parameters issues no create, its update
\* is answered 'no updates', it aborts only on an injected failure, and the
\* stack stays AVAILABLE throughout.
C1_DeployIdempotent ==
    /\ (proc.pc \in ReturnedNormally /\ entryStatus = "ABSENT") =>
          /\ \E i \in 1..Len(calls) :
                calls[i].op = "create_stack" /\ calls[i].res = "ok"
          /\ stackStatus[proc.stack_name] = "AVAILABLE"
    /\ SecondOfTwoDeploys =>
          /\ prev.mutation = "create_stack" /\ prev.mutated = "ok"
          /\ entryStatus = "AVAILABLE"
          /\ stackStatus[proc.stack_name] = "AVAILABLE"
          /\ \A i \in 1..Len(calls) :
                /\ calls[i].op # "create_stack"
                /\ calls[i].op = "update_stack" =>
                      calls[i].res \in {"NoUpdates"} \cup InjectedFailures
          /\ proc.pc \in Aborted => Faulted(calls)
          /\ proc.pc \in ReturnedNormally =>
                \E i \in 1..Len(calls) :
                    calls[i].op = "update_stack" /\ calls[i].res = "NoUpdates"

C1_Witness ==
    /\ SecondOfTwoDeploys
    /\ Len(calls) > 0
    /\ proc.pc \in ReturnedNormally
    /\ LastCall.op = "update_stack" /\ LastCall.res = "NoUpdates"

\* C2: the mutating call of a deploy directly follows its describe; it is a
\* create exactly when the describe reported the stack absent (and the stack
\* was ABSENT), an update exactly when the describe succeeded.
C2_CreateIffAbsent ==
    \A i \in 1..Len(calls) :
        calls[i].op \in StackMutations =>
            /\ i > 1
            /\ calls[i - 1].op = "describe_stacks"
            /\ calls[i].op = "create_stack" <=> calls[i - 1].res = "StackNotFound"
            /\ calls[i].op = "update_stack" <=> calls[i - 1].res = "ok"
            /\ calls[i].op = "create_stack" <=> entryStatus = "ABSENT"

C2_Witness ==
    /\ Len(calls) > 1
    /\ LastCall.op = "update_stack"
    /\ calls[Len(calls) - 1].res = "ok"
    /\ stackStatus[proc.stack_name] = "FAILED"

\* C3: when the mutating call or the wait of deploy fails, deploy returns
\* normally if the failure is 'No updates are to be performed' and aborts the
\* process otherwise; a process that went on after deploy saw no other failure.
C3_OnlyNoUpdatesIsSuccess ==
    /\ (Len(calls) > 0 /\ LastCall.op \in StackMutations \cup {"wait"}
            /\ LastCall.res # "ok") =>
          IF LastCall.res = "NoUpdates"
          THEN proc.pc \in ReturnedNormally
          ELSE proc.pc \in Aborted
    /\ proc.pc \in ReturnedNormally =>
          \A i \in 1..Len(calls) :
              calls[i].op \in StackMutations \cup {"wait"} =>
                  calls[i].res \in {"ok", "NoUpdates"}

C3_Witness ==
    /\ Len(calls) > 0
    /\ LastCall.op = "update_stack" /\ LastCall.res = "InvalidState"
    /\ proc.pc = "exit1"

\* C4: a describe that fails with 'does not exist' is no error and leads to a
\* create; after any other describe failure the process has aborted and has
\* issued no create or update.
C4_DescribeFailure ==
    \A i \in 1..Len(calls) :
        (calls[i].op = "describe_stacks" /\ calls[i].res # "ok") =>
            IF calls[i].res = "StackNotFound"
            THEN /\ ~proc.stack_exists
                 /\ i = Len(calls) => proc.pc \in {"mutate", "killed"}
                 /\ i < Len(calls) => calls[i + 1].op = "create_stack"
            ELSE /\ proc.pc \in Aborted
                 /\ i = Len(calls)
                 /\ \A j \in 1..Len(calls) : calls[j].op \notin StackMutations

C4_Witness ==
    /\ Len(calls) > 0
    /\ LastCall.op = "describe_stacks" /\ LastCall.res = "AccessDenied"
    /\ proc.pc = "exit1"
    /\ stackStatus[proc.stack_name] = "AVAILABLE"

\* C5: when deploy has returned normally the stack is in a terminal status,
\* neither CREATE_IN_PROGRESS nor UPDATE_IN_PROGRESS.
C5_ReturnMeansTerminal ==
    (proc.cmd \in AdminCommands /\ proc.pc \in ReturnedNormally) =>
        /\ stackStatus[proc.stack_name] \in Terminal
        /\ stackStatus[proc.stack_name] \notin InProgress

C5_Witness ==
    /\ proc.pc \in ReturnedNormally
    /\ Len(calls) > 1
    /\ LastCall.op = "wait" /\ LastCall.res = "ok"
    /\ calls[Len(calls) - 1].op = "update_stack"

StoreMutations ==
    {"create_bucket", "put_bucket_versioning", "put_bucket_encryption"}

\* the previous admin deploy got past ensuring the artifact store: it found
\* the bucket, or created it and enabled versioning and encryption
PrevEnsured ==
    /\ prev.cmd = "admin"
    /\ prev.head = "ok" \/ prev.encrypted = "ok"

\* C6: an admin deploy that follows one that ensured the same bucket finds
\* the bucket and issues no create-bucket, versioning or encryption call; no
\* run issues more than one create-bucket call.
C6_EnsureStoreOnce ==
    /\ (PrevEnsured /\ proc.cmd = "admin"
            /\ proc.full_bucket_name = prev.full_bucket_name) =>
          \A i \in 1..Len(calls) :
              /\ calls[i].op \notin StoreMutations
              /\ calls[i].op = "head_bucket" => calls[i].res # "404"
    /\ \A i, j \in 1..Len(calls) :
          (calls[i].op = "create_bucket" /\ calls[j].op = "create_bucket") => i = j

C6_Witness ==
    /\ PrevEnsured /\ prev.bucket_created = "ok"
    /\ proc.cmd = "admin" /\ proc.full_bucket_name = prev.full_bucket_name
    /\ Len(calls) > 0
    /\ LastCall.op = "head_bucket" /\ LastCall.res = "ok"

\* the positions of admin deploy at which the artifact store is taken as ready
StoreReady ==
    {"upload", "upload_dev", "read_template", "describe", "mutate", "wait", "done"}

\* C7: admin deploy is past ensuring the store (uploading templates or
\* deploying the base stack) only while the bucket has versioning and
\* server-side encryption.
C7_ReadyStoreIsProtected ==
    (proc.cmd = "admin" /\ proc.pc \in StoreReady) =>
        /\ buckets[proc.full_bucket_name].versioning
        /\ buckets[proc.full_bucket_name].encryption

\* the region admin deploy targets: --region, else the session's region,
\* else the reserved default region
TargetRegion ==
    IF settings.region # None THEN settings.region
    ELSE IF settings.session # None THEN settings.session
    ELSE "us-east-1"

\* C8: a create-bucket request has no location constraint exactly when the
\* target region is us-east-1, and otherwise its constraint is that region.
C8_LocationConstraint ==
    \A i \in 1..Len(calls) :
        calls[i].op = "create_bucket" =>
            /\ "LocationConstraint" \notin DOMAIN calls[i].req
                  <=> TargetRegion = "us-east-1"
            /\ "LocationConstraint" \in DOMAIN calls[i].req
                  => calls[i].req.LocationConstraint = TargetRegion

C8_Witness ==
    /\ Len(calls) > 0
    /\ LastCall.op = "create_bucket" /\ LastCall.res = "ok"
    /\ "LocationConstraint" \in DOMAIN LastCall.req
    /\ LastCall.req.LocationConstraint = "eu-west-1"
    /\ settings.region = None

\* the phase of admin deploy a remote call belongs to
PhaseOf(op) ==
    CASE op = "get_caller_identity" -> 1
      [] op = "head_bucket" -> 2
      [] op = "create_bucket" -> 3
      [] op = "put_bucket_versioning" -> 4
      [] op = "put_bucket_encryption" -> 5
      [] op = "upload_file" -> 6
      [] op = "describe_stacks" -> 7
      [] op \in StackMutations -> 8
      [] op = "wait" -> 9

\* an answer that is no failure of its phase
Benign(c) ==
    \/ c.res = "ok"
    \/ c.op = "head_bucket" /\ c.res = "404"
    \/ c.op = "describe_stacks" /\ c.res = "StackNotFound"

\* the uploads of one publication of the checkout
ExpectedUploads(f) ==
    Cardinality({x \in f.files : x.dir \in f.dirs})
        + (IF DevEnvTemplate \in f.files /\ "template" \in f.dirs THEN 1 ELSE 0)

OkUploadsBefore(i) ==
    Cardinality({j \in 1..(i - 1) :
                    calls[j].op = "upload_file" /\ calls[j].res = "ok"})

PhasesInOrder ==
    proc.cmd = "admin" =>
        /\ \A i \in 1..(Len(calls) - 1) :
              /\ Benign(calls[i])
              /\ PhaseOf(calls[i].op) <= PhaseOf(calls[i + 1].op)
        /\ \A i \in 1..Len(calls) :
              PhaseOf(calls[i].op) >= 7 =>
                  /\ \E j \in 1..(i - 1) :
                        /\ calls[j].op \in {"head_bucket", "put_bucket_encryption"}
                        /\ calls[j].res = "ok"
                  /\ OkUploadsBefore(i) = ExpectedUploads(fs)
        /\ proc.pc = "exit1" => (calls # <<>> /\ ~Benign(LastCall))

NothingUndone ==
    /\ \A b \in BucketNames :
          /\ buckets[b].exists => buckets'[b].exists
          /\ buckets[b].versioning => buckets'[b].versioning
          /\ buckets[b].encryption => buckets'[b].encryption
    /\ \A n \in StackNames :
          stackStatus[n] # "ABSENT" => stackStatus'[n] # "ABSENT"

\* C9: the remote calls of an admin deploy follow the order of its phases,
\* every call but the last one succeeded, the stack calls come after the
\* store was ensured and every template uploaded, and no step deletes a
\* bucket, its versioning or encryption, or a stack.
C9_PhasesGated == [](PhasesInOrder) /\ [][NothingUndone]_vars

C9_Witness ==
    /\ proc.cmd = "admin" /\ prev.cmd = "admin" /\ prev.pc \in Aborted
    /\ prev.bucket_created = "ok"
    /\ Len(calls) > 0
    /\ LastCall.op = "describe_stacks"
    /\ OkUploadsBefore(Len(calls)) > 1

\* no call of the running process met an injected failure or a stack
\* operation that the remote failed
RemoteNormal ==
    \A i \in 1..Len(calls) :
        calls[i].res \notin InjectedFailures \cup {"WaiterFailed"}

\* C10: an admin deploy that follows a killed or aborted admin deploy, and
\* whose remote operations behave normally, does not abort and, when it
\* completes, leaves the base stack AVAILABLE.
C10_RerunResumes ==
    (/\ proc.cmd = "admin" /\ prev.cmd = "admin"
     /\ prev.pc \in Aborted \cup {"killed"}
     /\ AdminTemplate \in fs.files
     /\ RemoteNormal) =>
        /\ proc.pc \notin Aborted
        /\ proc.pc = "done" => stackStatus[MasterStackName] = "AVAILABLE"

\* the upload_file calls of the running process that succeeded
OkUploads == {i \in 1..Len(calls) : calls[i].op = "upload_file" /\ calls[i].res = "ok"}

\* C11: no file that holds a {{Token}} placeholder is uploaded, none is
\* submitted as the template body of a stack call, and a process that met
\* one aborted.
C11_NoPlaceholderPublished ==
    /\ \A i \in OkUploads : calls[i].req.Filename \notin fs.tokens
    /\ \A i \in 1..Len(calls) :
          calls[i].op \in StackMutations => calls[i].req.template \notin fs.tokens

\* C12: two distinct template files uploaded by one publish run are stored
\* under distinct object keys.
C12_DistinctKeys ==
    \A i, j \in OkUploads :
        calls[i].req.Filename # calls[j].req.Filename =>
            calls[i].req.Key # calls[j].req.Key

\* the upload_file calls of the running process that failed
FailedUploads ==
    {i \in 1..Len(calls) : calls[i].op = "upload_file" /\ calls[i].res # "ok"}

\* C13: a failed upload is the last call of its process: no upload and no
\* stack operation follows it, and the process does not end normally.
C13_UploadFailureAborts ==
    \A i \in FailedUploads :
        /\ i = Len(calls)
        /\ proc.pc \in Aborted

C13_Witness ==
    /\ proc.cmd = "admin" /\ proc.pc \in Aborted
    /\ Len(calls) > 0 /\ LastCall.op = "upload_file" /\ LastCall.res = "UploadFailed"
    /\ Cardinality(OkUploads) > 0
    /\ LastCall.req.Filename \in proc.left /\ Cardinality(proc.left) > 1

\* the create_stack and update_stack calls of the running process
MutatingCalls == {i \in 1..Len(calls) : calls[i].op \in StackMutations}

\* the current deploy invocation follows one on the same stack name whose
\* create_stack was accepted and whose wait failed
AfterCreateWaitFailed ==
    /\ entryStatus # None
    /\ prev.mutation = "create_stack" /\ prev.mutated = "ok"
    /\ prev.waited \in {"WaiterFailed", "WaiterTimeout"}
    /\ prev.stack_name = proc.stack_name

\* C19: one deploy invocation issues at most one create_stack or
\* update_stack call; the deploy that follows an accepted create whose wait
\* failed finds the stack present and issues no create_stack.
C19_NoRetry ==
    /\ Cardinality(MutatingCalls) <= 1
    /\ AfterCreateWaitFailed =>
          /\ entryStatus # "ABSENT"
          /\ \A i \in 1..Len(calls) :
                /\ calls[i].op = "describe_stacks" => calls[i].res # "StackNotFound"
                /\ calls[i].op # "create_stack"

C19_Witness ==
    /\ AfterCreateWaitFailed
    /\ Len(calls) > 0 /\ LastCall.op = "update_stack"
    /\ proc.stack_exists

\* C14: a launch that completed left its provisioned product in a terminal
\* status: it does not finish while the product is UNDER_CHANGE.
C14_LaunchWaitsForTerminal ==
    (proc.cmd = "launch" /\ proc.pc = "done") =>
        provisioned[proc.name].Status \in TerminalStatuses

\* the provision_product calls of the running process
ProvisionCalls == {i \in 1..Len(calls) : calls[i].op = "provision_product"}

\* the catalog holds the portfolio, the product in it, and an artifact
HasPortfolio ==
    \E k \in DOMAIN catalog.portfolios :
        catalog.portfolios[k].DisplayName = PortfolioName
HasProduct ==
    \E k \in DOMAIN catalog.products, l \in DOMAIN catalog.portfolios :
        /\ catalog.products[k].Name = ProductName
        /\ catalog.portfolios[l].DisplayName = PortfolioName
        /\ catalog.products[k].portfolio = catalog.portfolios[l].Id
HasArtifact == catalog.artifacts # <<>>

\* C20: a launch issues at most one provision_product call, after
\* list_portfolios, search_products_as_admin and describe_product succeeded
\* in this order and found the portfolio, the product and a non-empty
\* artifact list, with the id of the first artifact; when a lookup finds
\* nothing the launch issues no provision_product and does not complete.
C20_LaunchOnlyAfterLookups ==
    /\ Cardinality(ProvisionCalls) <= 1
    /\ \A i \in ProvisionCalls :
          /\ i = 5
          /\ calls[2].op = "list_portfolios" /\ calls[2].res = "ok"
          /\ calls[3].op = "search_products_as_admin" /\ calls[3].res = "ok"
          /\ calls[4].op = "describe_product" /\ calls[4].res = "ok"
          /\ HasPortfolio /\ HasProduct /\ HasArtifact
          /\ calls[i].req.ProvisioningArtifactId = catalog.artifacts[1]
    /\ (proc.cmd = "launch" /\ ~(HasPortfolio /\ HasProduct /\ HasArtifact)) =>
          /\ ProvisionCalls = {}
          /\ proc.pc # "done"

C20_Witness ==
    /\ proc.cmd = "launch" /\ proc.pc = "done"
    /\ Len(calls) = 5 /\ LastCall.op = "provision_product" /\ LastCall.res = "ok"
    /\ Len(catalog.artifacts) > 1
    /\ catalog.artifacts[1] # catalog.artifacts[Len(catalog.artifacts)]

\* the describe_provisioned_product calls of the running process
DescribeCalls ==
    {i \in 1..Len(calls) : calls[i].op = "describe_provisioned_product"}

\* C15: a status check that read ERROR or TAINTED reports the failure.
C15_FailureReported ==
    (proc.cmd = "status" /\ proc.pc = "done"
     /\ proc.status \in {"ERROR", "TAINTED"}) =>
        proc.report = "failed"

\* C16: a status check issues at most one describe_provisioned_product;
\* the one that read AVAILABLE has issued exactly one, as its last call,
\* has reported success and has ended normally, whatever the process
\* before it did.
C16_AvailableInOneCall ==
    proc.cmd = "status" =>
        /\ Cardinality(DescribeCalls) <= 1
        /\ \A i \in DescribeCalls :
              (calls[i].res = "ok" /\ proc.status = "AVAILABLE") =>
                  /\ i = Len(calls)
                  /\ proc.pc = "done"
                  /\ proc.report = "succeeded"

C16_Witness ==
    /\ proc.cmd = "status" /\ proc.pc = "done" /\ proc.status = "AVAILABLE"
    /\ prev.cmd \in DeveloperCommands /\ prev.pc \in Aborted \cup {"killed"}
    /\ Cardinality(DescribeCalls) = 1

\* the terminate_provisioned_product calls of the running process
TerminateCalls ==
    {i \in 1..Len(calls) : calls[i].op = "terminate_provisioned_product"}

\* C17: terminate_provisioned_product is called only after the describe
\* found the product, with its id, and with --force or a confirmed prompt;
\* a declined prompt ends the command normally without the call.
C17_TerminateGuarded ==
    /\ \A i \in TerminateCalls :
          /\ i > 1 /\ calls[i - 1].op = "describe_provisioned_product"
          /\ calls[i - 1].res = "ok"
          /\ calls[i].req.ProvisionedProductId = ProvisionedId(proc.name)
          /\ proc.force \/ proc.confirm = "yes"
    /\ proc.confirm = "no" =>
          /\ TerminateCalls = {}
          /\ proc.pc = "done" /\ proc.report = "cancelled"

C17_Witness ==
    /\ proc.cmd = "terminate" /\ proc.confirm = "no" /\ proc.pc = "done"
    /\ ~proc.force
    /\ provisioned[proc.name].Status = "AVAILABLE"

\* the commands of the program
Commands == {"admin"} \cup DeveloperCommands

\* C18: the credentials check is the first call of every command, and a
\* command whose check failed has issued no other call and has aborted.
C18_AuthenticationFirst ==
    (proc.cmd \in Commands /\ Len(calls) > 0) =>
        /\ calls[1].op = "get_caller_identity"
        /\ calls[1].res # "ok" => (Len(calls) = 1 /\ proc.pc \in Aborted)

C18_Witness ==
    /\ proc.cmd = "terminate" /\ proc.force
    /\ Len(calls) = 1 /\ calls[1].res = "NoCredentials" /\ proc.pc = "exit1"
    /\ provisioned[proc.name].Status = "AVAILABLE"

\* the head_bucket calls of the running process
ProbeCalls == {i \in 1..Len(calls) : calls[i].op = "head_bucket"}

\* C21: a probe answered 404 is followed by create_bucket (the process is
\* about to issue it, or was killed before it did); a probe that failed
\* otherwise is the last call of its process, which has aborted.
C21_ProbeMapping ==
    \A i \in ProbeCalls :
        /\ calls[i].res = "404" =>
              IF i < Len(calls) THEN calls[i + 1].op = "create_bucket"
              ELSE proc.pc \in {"create_bucket", "killed"}
        /\ calls[i].res \notin {"ok", "404"} =>
              (i = Len(calls) /\ proc.pc \in Aborted)

C21_Witness ==
    /\ proc.cmd = "admin" /\ proc.pc = "exit1"
    /\ Len(calls) > 0 /\ LastCall.op = "head_bucket" /\ LastCall.res = "403"
    /\ prev.cmd = "admin" /\ prev.head = "404" /\ prev.bucket_created = "ok"

\* the commands C22 is about and the calls that only read
ReadOnlyCommands == {"status", "outputs", "list"}
ReadCalls ==
    {"get_caller_identity", "describe_provisioned_product",
     "search_provisioned_products"}

\* a step of a status, outputs or list process leaves the stacks, the
\* buckets, the catalog and the provisioned products as they are, and the
\* process has issued reading calls only
ReadOnlyStep ==
    (/\ proc'.cmd \in ReadOnlyCommands
     /\ proc'.pc # proc.pc \/ Len(calls') # Len(calls) \/ runs' # runs) =>
        /\ remote' = remote
        /\ service' = service
        /\ \A i \in 1..Len(calls') : calls'[i].op \in ReadCalls

\* C22: status, outputs and list are read-only: whatever the remote
\* answers, they issue no provision, terminate, stack, bucket or upload
\* call, and no step of theirs changes the remote state.
C22_ReadOnlyCommands == [][ReadOnlyStep]_vars

C22_Witness ==
    /\ proc.cmd = "outputs" /\ proc.pc = "done" /\ proc.report = "outputs"
    /\ Len(calls) = 2
    /\ prev.cmd = "status" /\ prev.pc = "done"

====
